---- MODULE Spec2Model ----
(***************************************************************************)
(* Validation schemas of portfolio_trajectory (schemas/input.py and        *)
(* schemas/base.py): CashFlowInput, ReturnModelInput and SimulationConfig. *)
(*                                                                         *)
(* A constructor call is one action: it takes the raw keyword data, runs   *)
(* the "before" field validators, the field type/constraint validation,   *)
(* the "after" field validators and the "after" model validator, in the    *)
(* order pydantic runs them, and leaves either the validated object or the *)
(* list of errors.                                                         *)
(*                                                                         *)
(* Representation.  A Python str is the sequence of its characters, each a *)
(* one-character string: "usa" is <<"u","s","a">>.  An Optional value is   *)
(* None == <<>> or Some(v) == <<v>>.  A float is a record [nan, v]: v an   *)
(* integer, or NaN (every ordered comparison with NaN is False).           *)
(***************************************************************************)
EXTENDS Integers, Sequences, FiniteSets, TLC

VARIABLES cls, input, pc, result

vars == <<cls, input, pc, result>>

(***************************************************************************)
(* Bounds of the model.                                                    *)
(***************************************************************************)
\* longest free-form returns_source token enumerated character by character
MaxTokLen == 3
\* longest percentile list enumerated element by element
MaxPctLen == 3

(***************************************************************************)
(* Optional values and floats.                                             *)
(***************************************************************************)
None == <<>>

Some(v) == <<v>>

IsNone(o) == o = <<>>

Val(o) == o[1]

F(n) == [nan |-> FALSE, v |-> n]

NaN == [nan |-> TRUE, v |-> 0]

\* Python float comparisons: False as soon as one side is NaN
FLt(a, b) == ~a.nan /\ ~b.nan /\ a.v < b.v

FGe(a, b) == ~a.nan /\ ~b.nan /\ a.v >= b.v

(***************************************************************************)
(* Characters.                                                             *)
(***************************************************************************)
LowerLetters ==
    <<"a","b","c","d","e","f","g","h","i","j","k","l","m",
      "n","o","p","q","r","s","t","u","v","w","x","y","z">>

UpperLetters ==
    <<"A","B","C","D","E","F","G","H","I","J","K","L","M",
      "N","O","P","Q","R","S","T","U","V","W","X","Y","Z">>

Digits == <<"0","1","2","3","4","5","6","7","8","9">>

InSeq(c, s) == \E i \in 1..Len(s) : s[i] = c

IsLower(c) == InSeq(c, LowerLetters)

IsUpper(c) == InSeq(c, UpperLetters)

IsDigit(c) == InSeq(c, Digits)

\* str.lower() on one character
LowerChar(c) ==
    IF IsUpper(c) THEN LowerLetters[CHOOSE i \in 1..Len(UpperLetters) : UpperLetters[i] = c]
    ELSE c

\* str.upper() on one character
UpperChar(c) ==
    IF IsLower(c) THEN UpperLetters[CHOOSE i \in 1..Len(LowerLetters) : LowerLetters[i] = c]
    ELSE c

\* str.lower()
Lower(s) == [i \in 1..Len(s) |-> LowerChar(s[i])]

(***************************************************************************)
(* pydantic.alias_generators.to_snake, as called at input.py:31 and :103.  *)
(* Four re.sub in sequence, replace("-", "_"), then lower() (pydantic 2.x  *)
(* as currently released).  Each re.sub inserts "_" inside every match:    *)
(* the ...Boundaries sets hold the positions j that get an underscore in   *)
(* front of s[j].                                                          *)
(***************************************************************************)
RECURSIVE InsertAt(_, _, _)
InsertAt(s, js, j) ==
    IF j > Len(s) THEN <<>>
    ELSE (IF j \in js THEN <<"_", s[j]>> ELSE <<s[j]>>) \o InsertAt(s, js, j + 1)

\* ([A-Z]+)([A-Z][a-z]): before the last capital of a run of capitals that a
\* lowercase letter follows
AcronymBoundaries(s) ==
    {j \in 2..(Len(s) - 1) : IsUpper(s[j - 1]) /\ IsUpper(s[j]) /\ IsLower(s[j + 1])}

\* ([a-z])([A-Z])
LowerUpperBoundaries(s) == {j \in 2..Len(s) : IsLower(s[j - 1]) /\ IsUpper(s[j])}

\* ([0-9])([A-Z])
DigitUpperBoundaries(s) == {j \in 2..Len(s) : IsDigit(s[j - 1]) /\ IsUpper(s[j])}

\* ([a-z])([0-9])
LowerDigitBoundaries(s) == {j \in 2..Len(s) : IsLower(s[j - 1]) /\ IsDigit(s[j])}

\* str.replace("-", "_")
ReplaceHyphens(s) == [i \in 1..Len(s) |-> IF s[i] = "-" THEN "_" ELSE s[i]]

to_snake(camel) ==
    LET s1 == InsertAt(camel, AcronymBoundaries(camel), 1)
        s2 == InsertAt(s1, LowerUpperBoundaries(s1), 1)
        s3 == InsertAt(s2, DigitUpperBoundaries(s2), 1)
        s4 == InsertAt(s3, LowerDigitBoundaries(s3), 1)
    IN  Lower(ReplaceHyphens(s4))

(***************************************************************************)
(* pydantic.alias_generators.to_camel on a snake_case name (lowercase      *)
(* words joined by single underscores), as called by the alias generator   *)
(* (base.py:10) and for the error messages (input.py:54, :62, :152, :159): *)
(* a name without underscore is returned as it is; otherwise title(), the  *)
(* underscores in front of a capital dropped, the first letter lowered.    *)
(***************************************************************************)
RECURSIVE CamelFrom(_, _)
CamelFrom(s, j) ==
    IF j > Len(s) THEN <<>>
    ELSE IF s[j] = "_" /\ j < Len(s) /\ IsLower(s[j + 1])
         THEN <<UpperChar(s[j + 1])>> \o CamelFrom(s, j + 2)
         ELSE <<s[j]>> \o CamelFrom(s, j + 1)

to_camel(snake) == CamelFrom(snake, 1)

(***************************************************************************)
(* Field names (the attribute names of the three models) and raw data.     *)
(* Raw keyword data is a function from keys (strings) to values.  With     *)
(* CamelModel (base.py:7-10) every field has the alias to_camel(name) and, *)
(* by populate_by_name, is read from the alias key or else from the name   *)
(* key; other keys are ignored.                                            *)
(***************************************************************************)
FieldName ==
    [ strategy |-> <<"s","t","r","a","t","e","g","y">>,
      contribution |-> <<"c","o","n","t","r","i","b","u","t","i","o","n">>,
      withdrawal |-> <<"w","i","t","h","d","r","a","w","a","l">>,
      months_to_retirement |-> <<"m","o","n","t","h","s","_","t","o","_","r","e","t","i","r","e","m","e","n","t">>,
      model_type |-> <<"m","o","d","e","l","_","t","y","p","e">>,
      nominal_expected_return |-> <<"n","o","m","i","n","a","l","_","e","x","p","e","c","t","e","d","_","r","e","t","u","r","n">>,
      nominal_standard_deviation |-> <<"n","o","m","i","n","a","l","_","s","t","a","n","d","a","r","d","_","d","e","v","i","a","t","i","o","n">>,
      real_expected_return |-> <<"r","e","a","l","_","e","x","p","e","c","t","e","d","_","r","e","t","u","r","n">>,
      real_standard_deviation |-> <<"r","e","a","l","_","s","t","a","n","d","a","r","d","_","d","e","v","i","a","t","i","o","n">>,
      returns_source |-> <<"r","e","t","u","r","n","s","_","s","o","u","r","c","e">>,
      start_date |-> <<"s","t","a","r","t","_","d","a","t","e">>,
      end_date |-> <<"e","n","d","_","d","a","t","e">>,
      block_size |-> <<"b","l","o","c","k","_","s","i","z","e">>,
      circular |-> <<"c","i","r","c","u","l","a","r">>,
      num_steps |-> <<"n","u","m","_","s","t","e","p","s">>,
      num_paths |-> <<"n","u","m","_","p","a","t","h","s">>,
      initial_balances |-> <<"i","n","i","t","i","a","l","_","b","a","l","a","n","c","e","s">>,
      percentiles |-> <<"p","e","r","c","e","n","t","i","l","e","s">>,
      return_model |-> <<"r","e","t","u","r","n","_","m","o","d","e","l">>,
      cash_flow_strategy |-> <<"c","a","s","h","_","f","l","o","w","_","s","t","r","a","t","e","g","y">> ]

\* a model without alias_generator: every field is known by its name only
Aliases_none == [f \in DOMAIN FieldName |-> FieldName[f]]

\* ConfigDict(alias_generator=to_camel): the alias of every field, made once
\* when the class is created
Aliases == [f \in DOMAIN FieldName |-> to_camel(FieldName[f])]

Alias(f) == Aliases[f]

\* ConfigDict(populate_by_name=True): the alias key, or else the name key
HasKey(raw, f) == Alias(f) \in DOMAIN raw \/ FieldName[f] \in DOMAIN raw

Get(raw, f) == IF Alias(f) \in DOMAIN raw THEN raw[Alias(f)] ELSE raw[FieldName[f]]

\* Field(None): an optional field that is left out is None
GetOptional(raw, f) == IF HasKey(raw, f) THEN Get(raw, f) ELSE None

\* the slip of naming the fields without map(to_camel, ...)
CamelNames_raw(fields) == [i \in 1..Len(fields) |-> FieldName[fields[i]]]

\* map(to_camel, fields)
CamelNames(fields) == [i \in 1..Len(fields) |-> to_camel(FieldName[fields[i]])]

(***************************************************************************)
(* Outcomes.  A pydantic ValidationError carries a list of errors, each    *)
(* with a type, the location (field path) and, for a ValueError raised by  *)
(* a validator, its message: the text, the fields it names and the model   *)
(* it names.                                                               *)
(***************************************************************************)
NoMsg == [text |-> "", fields |-> <<>>, model |-> <<>>]

Msg(text, fields, model) == [text |-> text, fields |-> fields, model |-> model]

Err(type, loc, msg) == [type |-> type, loc |-> loc, msg |-> msg]

Success(obj) == [status |-> "ok", value |-> obj, errors |-> <<>>]

Failure(errs) == [status |-> "error", value |-> <<>>, errors |-> errs]

\* what a validator method does: return the object, or raise
Return(obj) == [raised |-> "", self |-> obj, msg |-> NoMsg]

Raise(exc, obj, msg) == [raised |-> exc, self |-> obj, msg |-> msg]

\* errors of a nested model, reported under the field that holds it
Nested(f, errs) == [i \in 1..Len(errs) |-> [errs[i] EXCEPT !.loc = <<f>> \o @]]

(***************************************************************************)
(* CashFlowInput (input.py:10-66).                                         *)
(***************************************************************************)
ZERO == <<"z","e","r","o">>

FIXED == <<"f","i","x","e","d">>

FIXED_LIFECYCLE == <<"f","i","x","e","d","_","l","i","f","e","c","y","c","l","e">>

Strategy == {ZERO, FIXED, FIXED_LIFECYCLE}

\* the slip of lower-casing the token instead of converting it to snake_case
CF_normalize_strings_lower(value) == Lower(value)

\* field_validator("strategy", mode="before"); every token of the model is a str
CF_normalize_strings(value) == to_snake(value)

CF_required(strategy) ==
    IF strategy = ZERO THEN <<>>
    ELSE IF strategy = FIXED THEN <<"contribution">>
    ELSE IF strategy = FIXED_LIFECYCLE
         THEN <<"contribution", "withdrawal", "months_to_retirement">>
    ELSE <<>>

\* the slip of leaving months_to_retirement out of the unused list of "fixed"
CF_unused_slip(strategy) ==
    IF strategy = ZERO THEN <<"contribution", "withdrawal", "months_to_retirement">>
    ELSE IF strategy = FIXED THEN <<"withdrawal">>
    ELSE <<>>

CF_unused(strategy) ==
    IF strategy = ZERO THEN <<"contribution", "withdrawal", "months_to_retirement">>
    ELSE IF strategy = FIXED THEN <<"withdrawal", "months_to_retirement">>
    ELSE IF strategy = FIXED_LIFECYCLE THEN <<>>
    ELSE <<>>

\* [f for f in required if getattr(self, f) is None]
MissingFields(self, required) == SelectSeq(required, LAMBDA f : IsNone(self[f]))

\* the slip of testing the value (bool(value)) instead of comparing it with None
ExtraFields_truthy(self, unused) ==
    LET Truthy(f, value) ==
            CASE f \in {"contribution", "withdrawal", "nominal_expected_return",
                        "nominal_standard_deviation", "real_expected_return",
                        "real_standard_deviation"} -> value.nan \/ value.v # 0
              [] f \in {"months_to_retirement", "block_size", "start_date", "end_date"} ->
                    value # 0
              [] f = "circular" -> value
              [] f = "returns_source" -> value # <<>>
    IN  SelectSeq(unused, LAMBDA f : ~IsNone(self[f]) /\ Truthy(f, Val(self[f])))

\* [f for f in unused if getattr(self, f) is not None]
ExtraFields(self, unused) == SelectSeq(unused, LAMBDA f : ~IsNone(self[f]))

\* model_validator(mode="after")
CF_validate_fields(self) ==
    LET missing_fields == MissingFields(self, CF_required(self.strategy))
        extra_fields == ExtraFields(self, CF_unused(self.strategy))
    IN  IF missing_fields # <<>>
        THEN Raise("ValueError", self,
                   Msg("is required for", CamelNames(missing_fields), to_camel(self.strategy)))
        ELSE IF extra_fields # <<>>
        THEN Raise("ValueError", self,
                   Msg("must be None for", CamelNames(extra_fields), to_camel(self.strategy)))
        ELSE Return(self)

\* strategy: Strategy = Field(), behind the before validator
CF_strategy_errors(raw) ==
    IF ~HasKey(raw, "strategy") THEN <<Err("missing", <<"strategy">>, NoMsg)>>
    ELSE IF CF_normalize_strings(Get(raw, "strategy")) \notin Strategy
         THEN <<Err("enum", <<"strategy">>, NoMsg)>>
    ELSE <<>>

\* the slip of Field(None, gt=0)
CF_months_errors_gt(raw) ==
    LET m == GetOptional(raw, "months_to_retirement")
    IN  IF ~IsNone(m) /\ ~(Val(m) > 0)
        THEN <<Err("greater_than", <<"months_to_retirement">>, NoMsg)>>
        ELSE <<>>

\* months_to_retirement: int | None = Field(None, ge=0)
CF_months_errors(raw) ==
    LET m == GetOptional(raw, "months_to_retirement")
    IN  IF ~IsNone(m) /\ ~(Val(m) >= 0)
        THEN <<Err("greater_than_equal", <<"months_to_retirement">>, NoMsg)>>
        ELSE <<>>

\* CashFlowInput(**raw): the fields in declaration order, then the model validator
CashFlowInput(raw) ==
    LET errs == CF_strategy_errors(raw) \o CF_months_errors(raw)
    IN  IF errs # <<>> THEN Failure(errs)
        ELSE LET self == [strategy |-> CF_normalize_strings(Get(raw, "strategy")),
                          contribution |-> GetOptional(raw, "contribution"),
                          withdrawal |-> GetOptional(raw, "withdrawal"),
                          months_to_retirement |-> GetOptional(raw, "months_to_retirement")]
                 r == CF_validate_fields(self)
             IN  IF r.raised # "" THEN Failure(<<Err("value_error", <<>>, r.msg)>>)
                 ELSE Success(r.self)

(***************************************************************************)
(* ReturnModelInput (input.py:69-166).  A date is its ordinal number.      *)
(***************************************************************************)
STATISTICAL == <<"s","t","a","t","i","s","t","i","c","a","l">>

PARAMETRIC == <<"p","a","r","a","m","e","t","r","i","c">>

BOOTSTRAP == <<"b","o","o","t","s","t","r","a","p">>

ModelType == {STATISTICAL, PARAMETRIC, BOOTSTRAP}

GLOBAL == <<"g","l","o","b","a","l">>

USA == <<"u","s","a">>

ReturnsSource == {GLOBAL, USA}

\* the slip of only lowercasing the token
RM_normalize_strings_lower(value) == Lower(value)

\* field_validator("model_type", "returns_source", mode="before") on a str
RM_normalize_strings(value) == to_snake(value)

\* the before validator on an optional str: None is not a str and is returned
RM_normalize_optional(o) == IF IsNone(o) THEN None ELSE Some(RM_normalize_strings(Val(o)))

ReturnFields ==
    <<"nominal_expected_return", "nominal_standard_deviation",
      "real_expected_return", "real_standard_deviation">>

\* the if/elif chain of validate_fields has no else: for any other model type
\* the names required and unused are unbound
RM_bound(model_type) == model_type \in {PARAMETRIC, STATISTICAL, BOOTSTRAP}

RM_required(model_type) ==
    IF model_type = PARAMETRIC THEN ReturnFields
    ELSE IF model_type = STATISTICAL THEN <<"returns_source">>
    ELSE IF model_type = BOOTSTRAP THEN <<"returns_source">>
    ELSE <<>>

\* the slip of leaving circular out of the unused list of "statistical"
RM_unused_slip(model_type) ==
    IF model_type = PARAMETRIC
    THEN <<"returns_source", "start_date", "end_date", "block_size", "circular">>
    ELSE IF model_type = STATISTICAL THEN ReturnFields \o <<"block_size">>
    ELSE ReturnFields

RM_unused(model_type) ==
    IF model_type = PARAMETRIC
    THEN <<"returns_source", "start_date", "end_date", "block_size", "circular">>
    ELSE IF model_type = STATISTICAL THEN ReturnFields \o <<"block_size", "circular">>
    ELSE IF model_type = BOOTSTRAP THEN ReturnFields
    ELSE <<>>

\* the slip of testing truthiness ("if not self.circular") instead of "is None"
RM_defaults_truthy(self) ==
    IF self.model_type = BOOTSTRAP
    THEN [self EXCEPT !.block_size = IF IsNone(@) THEN Some(1) ELSE @,
                      !.circular = IF IsNone(@) \/ ~Val(@) THEN Some(TRUE) ELSE @]
    ELSE self

\* the slip of leaving out the default of circular
RM_defaults_no_circular(self) ==
    IF self.model_type = BOOTSTRAP
    THEN [self EXCEPT !.block_size = IF IsNone(@) THEN Some(1) ELSE @]
    ELSE self

\* if self.block_size is None: self.block_size = 1; likewise circular = True
RM_defaults(self) ==
    IF self.model_type = BOOTSTRAP
    THEN [self EXCEPT !.block_size = IF IsNone(@) THEN Some(1) ELSE @,
                      !.circular = IF IsNone(@) THEN Some(TRUE) ELSE @]
    ELSE self

\* the slip of comparing with >= instead of >
RM_dates_inverted_ge(self) ==
    ~IsNone(self.start_date) /\ ~IsNone(self.end_date)
    /\ Val(self.start_date) >= Val(self.end_date)

\* self.start_date and self.end_date and self.start_date > self.end_date
\* (a date is always truthy)
RM_dates_inverted(self) ==
    ~IsNone(self.start_date) /\ ~IsNone(self.end_date)
    /\ Val(self.start_date) > Val(self.end_date)

\* model_validator(mode="after")
RM_validate_fields(self0) ==
    IF ~RM_bound(self0.model_type) THEN Raise("UnboundLocalError", self0, NoMsg)
    ELSE
    LET self == RM_defaults(self0)
        missing_fields == MissingFields(self, RM_required(self.model_type))
        extra_fields == ExtraFields(self, RM_unused(self.model_type))
    IN  IF missing_fields # <<>>
        THEN Raise("ValueError", self,
                   Msg("is required for", CamelNames(missing_fields), self.model_type))
        ELSE IF extra_fields # <<>>
        THEN Raise("ValueError", self,
                   Msg("must be None for", CamelNames(extra_fields), self.model_type))
        ELSE IF RM_dates_inverted(self)
        THEN Raise("ValueError", self,
                   Msg("'startDate' cannot be after 'endDate'", <<>>, <<>>))
        ELSE Return(self)

\* model_type: ModelType = Field(), behind the before validator
RM_model_type_errors(raw) ==
    IF ~HasKey(raw, "model_type") THEN <<Err("missing", <<"model_type">>, NoMsg)>>
    ELSE IF RM_normalize_strings(Get(raw, "model_type")) \notin ModelType
         THEN <<Err("enum", <<"model_type">>, NoMsg)>>
    ELSE <<>>

\* float | None = Field(None, ge=0): rejected when value < 0
RM_deviation_errors(raw, f) ==
    LET d == GetOptional(raw, f)
    IN  IF ~IsNone(d) /\ FLt(Val(d), F(0))
        THEN <<Err("greater_than_equal", <<f>>, NoMsg)>>
        ELSE <<>>

\* block_size: int | None = Field(None, ge=1)
RM_block_size_errors(raw) ==
    LET b == GetOptional(raw, "block_size")
    IN  IF ~IsNone(b) /\ ~(Val(b) >= 1)
        THEN <<Err("greater_than_equal", <<"block_size">>, NoMsg)>>
        ELSE <<>>

\* ReturnModelInput(**raw): the fields in declaration order, then the model
\* validator.  returns_source: ReturnsSource | str | None takes every str.
ReturnModelInput(raw) ==
    LET errs == RM_model_type_errors(raw)
                \o RM_deviation_errors(raw, "nominal_standard_deviation")
                \o RM_deviation_errors(raw, "real_standard_deviation")
                \o RM_block_size_errors(raw)
    IN  IF errs # <<>> THEN Failure(errs)
        ELSE LET self ==
                   [model_type |-> RM_normalize_strings(Get(raw, "model_type")),
                    nominal_expected_return |-> GetOptional(raw, "nominal_expected_return"),
                    nominal_standard_deviation |-> GetOptional(raw, "nominal_standard_deviation"),
                    real_expected_return |-> GetOptional(raw, "real_expected_return"),
                    real_standard_deviation |-> GetOptional(raw, "real_standard_deviation"),
                    returns_source |-> RM_normalize_optional(GetOptional(raw, "returns_source")),
                    start_date |-> GetOptional(raw, "start_date"),
                    end_date |-> GetOptional(raw, "end_date"),
                    block_size |-> GetOptional(raw, "block_size"),
                    circular |-> GetOptional(raw, "circular")]
                 r == RM_validate_fields(self)
             IN  IF r.raised # "" THEN Failure(<<Err("value_error", <<>>, r.msg)>>)
                 ELSE Success(r.self)

(***************************************************************************)
(* SimulationConfig (input.py:169-219).  initial_balances: float |         *)
(* list[float] is [islist, items]: a float is a list-less single item.     *)
(***************************************************************************)
MIN_STEPS == 12

MAX_STEPS == 12 * 100

MIN_PATHS == 100

MAX_PATHS == 1000000

Scalar(x) == [islist |-> FALSE, items |-> <<x>>]

List(xs) == [islist |-> TRUE, items |-> xs]

\* the slip of exclusive bounds (gt, lt) instead of inclusive ones
RangeErrors_exclusive(raw, f, lo, hi) ==
    IF ~HasKey(raw, f) THEN <<Err("missing", <<f>>, NoMsg)>>
    ELSE IF ~(Get(raw, f) > lo) THEN <<Err("greater_than", <<f>>, NoMsg)>>
    ELSE IF ~(Get(raw, f) < hi) THEN <<Err("less_than", <<f>>, NoMsg)>>
    ELSE <<>>

\* Field(ge=lo, le=hi) on a required int
RangeErrors(raw, f, lo, hi) ==
    IF ~HasKey(raw, f) THEN <<Err("missing", <<f>>, NoMsg)>>
    ELSE IF ~(Get(raw, f) >= lo) THEN <<Err("greater_than_equal", <<f>>, NoMsg)>>
    ELSE IF ~(Get(raw, f) <= hi) THEN <<Err("less_than_equal", <<f>>, NoMsg)>>
    ELSE <<>>

\* field_validator("initial_balances")
validate_initial_balances(value) ==
    IF value.islist
    THEN IF ~(\A i \in 1..Len(value.items) : FGe(value.items[i], F(0)))
         THEN Raise("ValueError", value,
                    Msg("all values in initialBalances must be greater than or equal to 0",
                        <<>>, <<>>))
         ELSE Return(value)
    ELSE IF FLt(value.items[1], F(0))
         THEN Raise("ValueError", value,
                    Msg("initialBalances must be greater than or equal to 0", <<>>, <<>>))
         ELSE Return(value)

\* sorted(value): insertion into the sorted rest
RECURSIVE Insert(_, _)
Insert(x, s) ==
    IF s = <<>> THEN <<x>>
    ELSE IF x <= Head(s) THEN <<x>> \o s
    ELSE <<Head(s)>> \o Insert(x, Tail(s))

RECURSIVE sorted(_)
sorted(s) == IF s = <<>> THEN <<>> ELSE Insert(Head(s), sorted(Tail(s)))

\* the slip of returning the list as given
validate_percentiles_unsorted(value) ==
    IF ~(\A i \in 1..Len(value) : 0 < value[i] /\ value[i] < 100)
    THEN Raise("ValueError", value,
               Msg("each percentile must be greater than 0 and less than 100", <<>>, <<>>))
    ELSE IF Cardinality({value[i] : i \in 1..Len(value)}) # Len(value)
    THEN Raise("ValueError", value, Msg("percentiles must be unique", <<>>, <<>>))
    ELSE Return(value)

\* field_validator("percentiles")
validate_percentiles(value) ==
    IF ~(\A i \in 1..Len(value) : 0 < value[i] /\ value[i] < 100)
    THEN Raise("ValueError", value,
               Msg("each percentile must be greater than 0 and less than 100", <<>>, <<>>))
    ELSE IF Cardinality({value[i] : i \in 1..Len(value)}) # Len(value)
    THEN Raise("ValueError", value, Msg("percentiles must be unique", <<>>, <<>>))
    ELSE Return(sorted(value))

\* the slip of rejecting only a list that is longer than num_paths
validate_cross_fields_longer(self) ==
    IF self.initial_balances.islist /\ Len(self.initial_balances.items) > self.num_paths
    THEN Raise("ValueError", self,
               Msg("initialBalances must have the same length as numPaths", <<>>, <<>>))
    ELSE Return(self)

\* model_validator(mode="after")
validate_cross_fields(self) ==
    IF self.initial_balances.islist /\ Len(self.initial_balances.items) # self.num_paths
    THEN Raise("ValueError", self,
               Msg("initialBalances must have the same length as numPaths", <<>>, <<>>))
    ELSE Return(self)

\* a required field behind an "after" field validator
ValidatorErrors(raw, f, r) ==
    IF ~HasKey(raw, f) THEN <<Err("missing", <<f>>, NoMsg)>>
    ELSE IF r.raised # "" THEN <<Err("value_error", <<f>>, r.msg)>>
    ELSE <<>>

\* a required field that holds a nested model
NestedErrors(raw, f, r) ==
    IF ~HasKey(raw, f) THEN <<Err("missing", <<f>>, NoMsg)>>
    ELSE Nested(f, r.errors)

\* the slip of stopping at the first field that fails
SimulationConfig_first(raw) ==
    LET bal == IF HasKey(raw, "initial_balances")
               THEN validate_initial_balances(Get(raw, "initial_balances"))
               ELSE Return(<<>>)
        pct == IF HasKey(raw, "percentiles")
               THEN validate_percentiles(Get(raw, "percentiles"))
               ELSE Return(<<>>)
        rm == IF HasKey(raw, "return_model")
              THEN ReturnModelInput(Get(raw, "return_model"))
              ELSE Failure(<<>>)
        cf == IF HasKey(raw, "cash_flow_strategy")
              THEN CashFlowInput(Get(raw, "cash_flow_strategy"))
              ELSE Failure(<<>>)
        errs == RangeErrors(raw, "num_steps", MIN_STEPS, MAX_STEPS)
                \o RangeErrors(raw, "num_paths", MIN_PATHS, MAX_PATHS)
                \o ValidatorErrors(raw, "initial_balances", bal)
                \o ValidatorErrors(raw, "percentiles", pct)
                \o NestedErrors(raw, "return_model", rm)
                \o NestedErrors(raw, "cash_flow_strategy", cf)
    IN  IF errs # <<>> THEN Failure(<<errs[1]>>)
        ELSE LET self == [num_steps |-> Get(raw, "num_steps"),
                          num_paths |-> Get(raw, "num_paths"),
                          initial_balances |-> bal.self,
                          percentiles |-> pct.self,
                          return_model |-> rm.value,
                          cash_flow_strategy |-> cf.value]
                 r == validate_cross_fields(self)
             IN  IF r.raised # "" THEN Failure(<<Err("value_error", <<>>, r.msg)>>)
                 ELSE Success(r.self)

\* SimulationConfig(**raw): every field in declaration order, each adding its
\* errors; the model validator runs only when no field failed
SimulationConfig(raw) ==
    LET bal == IF HasKey(raw, "initial_balances")
               THEN validate_initial_balances(Get(raw, "initial_balances"))
               ELSE Return(<<>>)
        pct == IF HasKey(raw, "percentiles")
               THEN validate_percentiles(Get(raw, "percentiles"))
               ELSE Return(<<>>)
        rm == IF HasKey(raw, "return_model")
              THEN ReturnModelInput(Get(raw, "return_model"))
              ELSE Failure(<<>>)
        cf == IF HasKey(raw, "cash_flow_strategy")
              THEN CashFlowInput(Get(raw, "cash_flow_strategy"))
              ELSE Failure(<<>>)
        errs == RangeErrors(raw, "num_steps", MIN_STEPS, MAX_STEPS)
                \o RangeErrors(raw, "num_paths", MIN_PATHS, MAX_PATHS)
                \o ValidatorErrors(raw, "initial_balances", bal)
                \o ValidatorErrors(raw, "percentiles", pct)
                \o NestedErrors(raw, "return_model", rm)
                \o NestedErrors(raw, "cash_flow_strategy", cf)
    IN  IF errs # <<>> THEN Failure(errs)
        ELSE LET self == [num_steps |-> Get(raw, "num_steps"),
                          num_paths |-> Get(raw, "num_paths"),
                          initial_balances |-> bal.self,
                          percentiles |-> pct.self,
                          return_model |-> rm.value,
                          cash_flow_strategy |-> cf.value]
                 r == validate_cross_fields(self)
             IN  IF r.raised # "" THEN Failure(<<Err("value_error", <<>>, r.msg)>>)
                 ELSE Success(r.self)

(***************************************************************************)
(* The inputs of the model: raw keyword data built from field values.      *)
(* style chooses the spelling of every key (the camelCase alias or the     *)
(* attribute name); with explicit, an optional field without value is      *)
(* passed as an explicit None instead of being left out.                   *)
(***************************************************************************)
KeyStyles == {"alias", "name"}

Key(style, f) == IF style = "alias" THEN Alias(f) ELSE FieldName[f]

RawData(required, optional, fv, style, explicit) ==
    LET present == required \cup {f \in optional : explicit \/ ~IsNone(fv[f])}
    IN  [k \in {Key(style, f) : f \in present} |->
            fv[CHOOSE f \in present : Key(style, f) = k]]

RECURSIVE SeqsUpTo(_, _)
SeqsUpTo(S, n) ==
    IF n = 0 THEN {<<>>}
    ELSE LET shorter == SeqsUpTo(S, n - 1)
         IN  shorter \cup {Append(s, x) : s \in shorter, x \in S}

Tok_fixedLifecycle == <<"f","i","x","e","d","L","i","f","e","c","y","c","l","e">>

Tok_FIXED == <<"F","I","X","E","D">>

Tok_invalid_strategy == <<"i","n","v","a","l","i","d","_","s","t","r","a","t","e","g","y">>

Tok_VFINX == <<"V","F","I","N","X">>

Tok_GLOBAL == <<"G","L","O","B","A","L">>

Tok_vfinxFund == <<"v","f","i","n","x","F","u","n","d">>

\* ---- CashFlowInput inputs
CF_Optional == {"contribution", "withdrawal", "months_to_retirement"}

StrategyTokens ==
    {ZERO, FIXED, FIXED_LIFECYCLE, Tok_fixedLifecycle, Tok_FIXED, Tok_invalid_strategy}

CF_FieldValues ==
    [strategy : StrategyTokens,
     contribution : {None, Some(F(0)), Some(F(500))},
     withdrawal : {None, Some(F(0)), Some(F(-400))},
     months_to_retirement : {None, Some(-1), Some(0), Some(32)}]

CF_Inputs ==
    {RawData({"strategy"}, CF_Optional, fv, style, explicit) :
        fv \in CF_FieldValues, style \in KeyStyles, explicit \in BOOLEAN}

\* ---- ReturnModelInput inputs
RM_Optional ==
    {"nominal_expected_return", "nominal_standard_deviation", "real_expected_return",
     "real_standard_deviation", "returns_source", "start_date", "end_date",
     "block_size", "circular"}

\* every present/absent combination of the nine optional fields
RM_FieldValues ==
    [model_type : ModelType,
     nominal_expected_return : {None, Some(F(7))},
     nominal_standard_deviation : {None, Some(F(15))},
     real_expected_return : {None, Some(F(5))},
     real_standard_deviation : {None, Some(F(10))},
     returns_source : {None, Some(GLOBAL), Some(Tok_VFINX)},
     start_date : {None, Some(1), Some(2)},
     end_date : {None, Some(1), Some(2)},
     block_size : {None, Some(0), Some(1), Some(17)},
     circular : {None, Some(TRUE), Some(FALSE)}]

\* the same combinations, one value a field, for the attribute-name keys
RM_PresenceFieldValues ==
    [model_type : ModelType,
     nominal_expected_return : {None, Some(F(7))},
     nominal_standard_deviation : {None, Some(F(15))},
     real_expected_return : {None, Some(F(5))},
     real_standard_deviation : {None, Some(F(10))},
     returns_source : {None, Some(USA)},
     start_date : {None, Some(1)},
     end_date : {None, Some(2)},
     block_size : {None, Some(17)},
     circular : {None, Some(FALSE)}]

\* the characters of the enumerated returns_source tokens
TokenChars == {"u", "s", "a", "U", "S", "A", "5", "-"}

Tokens == SeqsUpTo(TokenChars, MaxTokLen) \cup {Tok_GLOBAL, Tok_vfinxFund}

\* every token as returns_source of an otherwise valid config
RM_TokenFieldValues ==
    [model_type : {STATISTICAL, BOOTSTRAP},
     nominal_expected_return : {None},
     nominal_standard_deviation : {None},
     real_expected_return : {None},
     real_standard_deviation : {None},
     returns_source : {Some(t) : t \in Tokens},
     start_date : {None},
     end_date : {None},
     block_size : {None},
     circular : {None}]

RM_Inputs ==
    {RawData({"model_type"}, RM_Optional, fv, "alias", FALSE) :
        fv \in RM_FieldValues \cup RM_TokenFieldValues}
    \cup {RawData({"model_type"}, RM_Optional, fv, "name", FALSE) :
            fv \in RM_PresenceFieldValues}

\* ---- SimulationConfig inputs
SC_Required ==
    {"num_steps", "num_paths", "initial_balances", "percentiles", "return_model",
     "cash_flow_strategy"}

StepValues == {MIN_STEPS - 1, MIN_STEPS, 100, MAX_STEPS, MAX_STEPS + 1}

PathValues == {3, 5, MIN_PATHS - 1, MIN_PATHS, MIN_PATHS + 1, MAX_PATHS, MAX_PATHS + 1}

\* a list of n balances, all x but the one at position p, which is y
Balances(n, x, p, y) == [i \in 1..n |-> IF i = p THEN y ELSE x]

BalanceLengths == {0, 3, MIN_PATHS - 1, MIN_PATHS, MIN_PATHS + 1}

BalanceValues ==
    {Scalar(x) : x \in {F(-1), F(0), F(1500), NaN}}
    \cup {List(<<F(1), F(2), F(3)>>)}
    \cup UNION {{List(Balances(n, x, p, y)) :
                    x \in {F(0), F(1000)}, p \in {1, n}, y \in {F(1000), F(-500), NaN}} :
                 n \in BalanceLengths}

PercentileValues == {0, 1, 50, 99, 100}

RM_Valid == RawData({"model_type"}, {"returns_source"},
                    [model_type |-> STATISTICAL, returns_source |-> Some(GLOBAL)],
                    "alias", FALSE)

RM_Invalid == RawData({"model_type"}, {"returns_source"},
                      [model_type |-> STATISTICAL, returns_source |-> None],
                      "alias", FALSE)

CF_Valid == RawData({"strategy"}, {}, [strategy |-> ZERO], "alias", FALSE)

CF_Invalid == RawData({"strategy"}, {}, [strategy |-> FIXED], "alias", FALSE)

\* the scalars and the balances in every combination, the rest valid
SC_FieldValues ==
    [num_steps : StepValues,
     num_paths : PathValues,
     initial_balances : BalanceValues,
     percentiles : {<<99, 1, 50>>},
     return_model : {RM_Valid},
     cash_flow_strategy : {CF_Valid}]

\* the scalars with valid and invalid percentiles and nested models
SC_NestedFieldValues ==
    [num_steps : StepValues,
     num_paths : PathValues,
     initial_balances : {Scalar(F(1500)), List(<<F(1), F(2), F(3)>>),
                         List(Balances(MIN_PATHS, F(1000), 1, F(1000)))},
     percentiles : {<<99, 1, 50>>, <<50, 10, 90, 10>>},
     return_model : {RM_Valid, RM_Invalid},
     cash_flow_strategy : {CF_Valid, CF_Invalid}]

\* every short percentile list in an otherwise valid config
SC_PercentileFieldValues ==
    [num_steps : {100},
     num_paths : {1000},
     initial_balances : {Scalar(F(1500))},
     percentiles : SeqsUpTo(PercentileValues, MaxPctLen),
     return_model : {RM_Valid},
     cash_flow_strategy : {CF_Valid}]

SC_Inputs ==
    {RawData(SC_Required, {}, fv, "alias", FALSE) :
        fv \in SC_FieldValues \cup SC_NestedFieldValues}
    \cup {RawData(SC_Required, {}, fv, style, FALSE) :
            fv \in SC_PercentileFieldValues, style \in KeyStyles}

(***************************************************************************)
(* The state machine: one constructor call on one input.                   *)
(***************************************************************************)
NoResult == [status |-> "none", value |-> <<>>, errors |-> <<>>]

InitCF == cls = "CashFlowInput" /\ input \in CF_Inputs /\ pc = "start" /\ result = NoResult

InitRM == cls = "ReturnModelInput" /\ input \in RM_Inputs /\ pc = "start" /\ result = NoResult

InitSC == cls = "SimulationConfig" /\ input \in SC_Inputs /\ pc = "start" /\ result = NoResult

Init == InitCF \/ InitRM \/ InitSC

ConstructCashFlowInput ==
    /\ pc = "start" /\ cls = "CashFlowInput"
    /\ result' = CashFlowInput(input)
    /\ pc' = "done"
    /\ UNCHANGED <<cls, input>>

ConstructReturnModelInput ==
    /\ pc = "start" /\ cls = "ReturnModelInput"
    /\ result' = ReturnModelInput(input)
    /\ pc' = "done"
    /\ UNCHANGED <<cls, input>>

ConstructSimulationConfig ==
    /\ pc = "start" /\ cls = "SimulationConfig"
    /\ result' = SimulationConfig(input)
    /\ pc' = "done"
    /\ UNCHANGED <<cls, input>>

Next == ConstructCashFlowInput \/ ConstructReturnModelInput \/ ConstructSimulationConfig

Spec == Init /\ [][Next]_vars

SpecCF == InitCF /\ [][ConstructCashFlowInput]_vars

SpecRM == InitRM /\ [][ConstructReturnModelInput]_vars

SpecSC == InitSC /\ [][ConstructSimulationConfig]_vars

(***************************************************************************)
(* Inputs for the properties of keys, tokens and field values: every       *)
(* spelling of a discriminator that differs from a member by letter case,  *)
(* values on both sides of every Field(ge=...) bound, falsy values, and    *)
(* optional fields passed as an explicit None.                             *)
(***************************************************************************)
\* the spellings of word that differ from it by letter case only
CaseVariants(word) ==
    {[i \in 1..Len(word) |-> IF i \in U THEN UpperChar(word[i]) ELSE LowerChar(word[i])] :
        U \in SUBSET (1..Len(word))}

Tok_FixedLifecycle == <<"F","i","x","e","d","L","i","f","e","c","y","c","l","e">>

Tok_FIXED_LIFECYCLE == <<"F","I","X","E","D","_","L","I","F","E","C","Y","C","L","E">>

Tok_FIXEDLIFECYCLE == <<"F","I","X","E","D","L","I","F","E","C","Y","C","L","E">>

Tok_fixedlifecycle == <<"f","i","x","e","d","l","i","f","e","c","y","c","l","e">>

Tok_fixed_Lifecycle == <<"f","i","x","e","d","_","L","i","f","e","c","y","c","l","e">>

Tok_fixedLIFECYCLE == <<"f","i","x","e","d","L","I","F","E","C","Y","C","L","E">>

Tok_fixed_hyphen_lifecycle == <<"f","i","x","e","d","-","l","i","f","e","c","y","c","l","e">>

Tok_Statistical == <<"S","t","a","t","i","s","t","i","c","a","l">>

Tok_STATISTICAL == <<"S","T","A","T","I","S","T","I","C","A","L">>

Tok_statIstical == <<"s","t","a","t","I","s","t","i","c","a","l">>

Tok_PARAMETRIC == <<"P","A","R","A","M","E","T","R","I","C">>

Tok_ParaMetric == <<"P","a","r","a","M","e","t","r","i","c">>

Tok_historical == <<"h","i","s","t","o","r","i","c","a","l">>

LifecycleTokens ==
    {FIXED_LIFECYCLE, Tok_fixedLifecycle, Tok_FixedLifecycle, Tok_FIXED_LIFECYCLE,
     Tok_FIXEDLIFECYCLE, Tok_fixedlifecycle, Tok_fixed_Lifecycle, Tok_fixedLIFECYCLE,
     Tok_fixed_hyphen_lifecycle}

\* every case variant of "zero" and "fixed", and spellings of fixed_lifecycle
CF_CaseFieldValues ==
    [strategy : CaseVariants(ZERO) \cup CaseVariants(FIXED) \cup LifecycleTokens
                    \cup {Tok_invalid_strategy},
     contribution : {None, Some(F(-500))},
     withdrawal : {None, Some(F(400))},
     months_to_retirement : {None, Some(-1), Some(32)}]

CF_FieldInputs ==
    CF_Inputs
    \cup {RawData({"strategy"}, CF_Optional, fv, "alias", FALSE) : fv \in CF_CaseFieldValues}

ModelTypeTokens ==
    CaseVariants(BOOTSTRAP)
    \cup {STATISTICAL, PARAMETRIC, Tok_Statistical, Tok_STATISTICAL, Tok_statIstical,
          Tok_PARAMETRIC, Tok_ParaMetric, Tok_historical}

\* every model_type token, with and without a returns_source
RM_CaseFieldValues ==
    [model_type : ModelTypeTokens,
     nominal_expected_return : {None},
     nominal_standard_deviation : {None},
     real_expected_return : {None},
     real_standard_deviation : {None},
     returns_source : {None, Some(GLOBAL)},
     start_date : {None},
     end_date : {None},
     block_size : {None},
     circular : {None}]

\* numbers on both sides of every bound, and of zero where there is no bound
RM_BoundFieldValues ==
    [model_type : {PARAMETRIC},
     nominal_expected_return : {Some(F(-7)), Some(F(0))},
     nominal_standard_deviation : {Some(F(-1)), Some(F(0)), Some(F(15))},
     real_expected_return : {None, Some(F(-5))},
     real_standard_deviation : {None, Some(F(-1)), Some(F(0)), Some(F(10))},
     returns_source : {None},
     start_date : {None},
     end_date : {None},
     block_size : {None},
     circular : {None}]
    \cup
    [model_type : {BOOTSTRAP},
     nominal_expected_return : {None},
     nominal_standard_deviation : {None, Some(F(-1))},
     real_expected_return : {None},
     real_standard_deviation : {None},
     returns_source : {Some(USA)},
     start_date : {None},
     end_date : {None},
     block_size : {None, Some(-1), Some(0), Some(1), Some(2)},
     circular : {None, Some(FALSE)}]

RM_FieldInputs ==
    {RawData({"model_type"}, RM_Optional, fv, "alias", FALSE) :
        fv \in RM_CaseFieldValues \cup RM_BoundFieldValues}
    \cup {RawData({"model_type"}, RM_Optional, fv, "name", FALSE) :
            fv \in RM_PresenceFieldValues}
    \cup {RawData({"model_type"}, RM_Optional, fv, "alias", TRUE) :
            fv \in RM_PresenceFieldValues}

SC_FieldInputs ==
    {RawData(SC_Required, {}, fv, "alias", FALSE) : fv \in SC_NestedFieldValues}
    \cup {RawData(SC_Required, {}, fv, style, FALSE) :
            fv \in SC_PercentileFieldValues, style \in KeyStyles}

InitFields ==
    /\ \/ cls = "CashFlowInput" /\ input \in CF_FieldInputs
       \/ cls = "ReturnModelInput" /\ input \in RM_FieldInputs
       \/ cls = "SimulationConfig" /\ input \in SC_FieldInputs
    /\ pc = "start" /\ result = NoResult

SpecFields == InitFields /\ [][Next]_vars

\* the inputs above and every returns_source token
InitRoundTrip ==
    \/ InitFields
    \/ /\ cls = "ReturnModelInput"
       /\ input \in {RawData({"model_type"}, RM_Optional, fv, "alias", FALSE) :
                        fv \in RM_TokenFieldValues}
       /\ pc = "start" /\ result = NoResult

SpecRoundTrip == InitRoundTrip /\ [][Next]_vars

(***************************************************************************)
(* Attribute assignment.  model_config (base.py:7-10) has neither          *)
(* frozen=True nor validate_assignment=True, so obj.field = v on a         *)
(* validated model stores v as it is; validate_fields itself relies on it  *)
(* (self.block_size = 1).                                                  *)
(***************************************************************************)
\* values a caller may assign to field f of a model of class c
AssignedValues(c, f) ==
    CASE f = "strategy" -> Strategy
      [] f \in {"contribution", "withdrawal"} -> {None, Some(F(500))}
      [] f = "months_to_retirement" -> {None, Some(-1)}
      [] f = "model_type" -> ModelType
      [] (\E i \in 1..Len(ReturnFields) : ReturnFields[i] = f) -> {None, Some(F(-1))}
      [] f = "returns_source" -> {None, Some(USA)}
      [] f \in {"start_date", "end_date"} -> {None, Some(1), Some(2)}
      [] f = "block_size" -> {None, Some(0)}
      [] f = "circular" -> {None, Some(FALSE)}
      [] f = "num_steps" -> {MIN_STEPS - 1, MAX_STEPS}
      [] f = "num_paths" -> {MIN_PATHS - 1, MAX_PATHS}
      [] f = "initial_balances" -> {Scalar(F(-1)), List(<<F(1), F(2), F(3)>>)}
      [] f = "percentiles" -> {<<99, 1>>, <<50, 50>>}
      [] f = "return_model" -> {<<>>}
      [] f = "cash_flow_strategy" -> {<<>>}

\* obj.f = v on the validated model: BaseModel.__setattr__, no validation
AssignAttribute ==
    /\ pc = "done" /\ result.status = "ok"
    /\ \E f \in DOMAIN result.value :
         \E v \in AssignedValues(cls, f) :
            result' = [result EXCEPT !.value[f] = v]
    /\ pc' = "assigned"
    /\ UNCHANGED <<cls, input>>

NextAssign == Next \/ AssignAttribute

SpecAssign == InitFields /\ [][NextAssign]_vars

(***************************************************************************)
(* The field-set validators called as methods.  validate_fields is a       *)
(* public method of each model; on an instance whose fields were set       *)
(* without validation (model_construct, or attribute assignment on a       *)
(* validated instance) the discriminator may be any string, the case the   *)
(* final else of CashFlowInput.validate_fields is written for.  Here input *)
(* holds the instance.                                                     *)
(***************************************************************************)
CF_Instances ==
    [strategy : Strategy \cup {Tok_invalid_strategy},
     contribution : {None, Some(F(500))},
     withdrawal : {None, Some(F(-400))},
     months_to_retirement : {None, Some(32)}]

RM_Instances ==
    [model_type : ModelType \cup {Tok_historical},
     nominal_expected_return : {None, Some(F(7))},
     nominal_standard_deviation : {None, Some(F(15))},
     real_expected_return : {None, Some(F(5))},
     real_standard_deviation : {None, Some(F(10))},
     returns_source : {None, Some(USA)},
     start_date : {None, Some(2)},
     end_date : {None, Some(1)},
     block_size : {None, Some(17)},
     circular : {None, Some(FALSE)}]

\* what the caller of a validator method sees: the instance, a ValueError,
\* or any other exception
Outcome(r) ==
    IF r.raised = "" THEN Success(r.self)
    ELSE IF r.raised = "ValueError" THEN Failure(<<Err("value_error", <<>>, r.msg)>>)
    ELSE [status |-> "exception", value |-> <<>>, errors |-> <<Err(r.raised, <<>>, NoMsg)>>]

InitMethods ==
    /\ \/ cls = "CashFlowInput" /\ input \in CF_Instances
       \/ cls = "ReturnModelInput" /\ input \in RM_Instances
    /\ pc = "constructed" /\ result = NoResult

CallCashFlowValidateFields ==
    /\ pc = "constructed" /\ cls = "CashFlowInput"
    /\ result' = Outcome(CF_validate_fields(input))
    /\ pc' = "done"
    /\ UNCHANGED <<cls, input>>

CallReturnModelValidateFields ==
    /\ pc = "constructed" /\ cls = "ReturnModelInput"
    /\ result' = Outcome(RM_validate_fields(input))
    /\ pc' = "done"
    /\ UNCHANGED <<cls, input>>

NextMethods == CallCashFlowValidateFields \/ CallReturnModelValidateFields

SpecMethods == InitMethods /\ [][NextMethods]_vars

(***************************************************************************)
(* Properties.  In(f) is the value the input gives the optional field f;   *)
(* the rules below are written out from the documented contract, not from  *)
(* the operators above.                                                    *)
(***************************************************************************)
Done(c) == cls = c /\ pc = "done"

In(f) == GetOptional(input, f)

Given(f) == ~IsNone(In(f))

Accepted == result.status = "ok"

Rejected == result.status = "error"

\* the fields named by the message of the only error
NamedFields == {result.errors[1].msg.fields[i] : i \in 1..Len(result.errors[1].msg.fields)}

\* some error at location loc carries the message text
Reports(loc, text) ==
    \E i \in 1..Len(result.errors) :
        result.errors[i].loc = loc /\ result.errors[i].msg.text = text

\* some error at location loc has the given pydantic error type
ReportsType(loc, type) ==
    \E i \in 1..Len(result.errors) :
        result.errors[i].loc = loc /\ result.errors[i].type = type

PublicName ==
    [ contribution |-> <<"c","o","n","t","r","i","b","u","t","i","o","n">>,
      withdrawal |-> <<"w","i","t","h","d","r","a","w","a","l">>,
      months_to_retirement |-> <<"m","o","n","t","h","s","T","o","R","e","t","i","r","e","m","e","n","t">> ]

\* ---------------------------------------------------------------- C1
C1_Strategy == to_snake(Get(input, "strategy"))

C1_Required ==
    IF C1_Strategy = ZERO THEN {}
    ELSE IF C1_Strategy = FIXED THEN {"contribution"}
    ELSE {"contribution", "withdrawal", "months_to_retirement"}

C1_Present == {f \in CF_Optional : Given(f)}

C1_WellTyped ==
    C1_Strategy \in Strategy
    /\ (Given("months_to_retirement") => Val(In("months_to_retirement")) >= 0)

\* C1: for each of the three strategies and every present/absent combination
\* of contribution, withdrawal and months_to_retirement (well-typed values),
\* CashFlowInput validation succeeds iff the non-null fields are exactly the
\* strategy's required fields; a failure names every omitted required field
\* or, when none is omitted, every supplied forbidden field.
C1_FieldSetRule ==
    (Done("CashFlowInput") /\ C1_WellTyped) =>
        /\ Accepted <=> C1_Present = C1_Required
        /\ Rejected =>
             /\ Len(result.errors) = 1
             /\ IF C1_Required \ C1_Present # {}
                THEN {PublicName[f] : f \in C1_Required \ C1_Present} \subseteq NamedFields
                ELSE {PublicName[f] : f \in C1_Present \ C1_Required} \subseteq NamedFields

\* fixed_lifecycle with only contribution: rejected, naming the two omitted fields
C1_Witness ==
    /\ Done("CashFlowInput") /\ C1_Strategy = FIXED_LIFECYCLE
    /\ C1_Present = {"contribution"}
    /\ Rejected
    /\ NamedFields = {PublicName.withdrawal, PublicName.months_to_retirement}

\* ---------------------------------------------------------------- C2
C2_ModelType == to_snake(Get(input, "model_type"))

C2_AllGiven(fs) == \A f \in fs : Given(f)

C2_NoneGiven(fs) == \A f \in fs : ~Given(f)

C2_ReturnFields ==
    {"nominal_expected_return", "nominal_standard_deviation", "real_expected_return",
     "real_standard_deviation"}

C2_DatesOrdered ==
    (Given("start_date") /\ Given("end_date")) => Val(In("start_date")) <= Val(In("end_date"))

C2_WellTyped == Given("block_size") => Val(In("block_size")) >= 1

C2_FieldSetOk ==
    IF C2_ModelType = PARAMETRIC
    THEN C2_AllGiven(C2_ReturnFields)
         /\ C2_NoneGiven({"returns_source", "start_date", "end_date", "block_size", "circular"})
    ELSE IF C2_ModelType = STATISTICAL
    THEN Given("returns_source")
         /\ C2_NoneGiven(C2_ReturnFields \cup {"block_size", "circular"})
    ELSE Given("returns_source") /\ C2_NoneGiven(C2_ReturnFields)

\* C2: for every model type and every present/absent combination of the nine
\* optional fields (well-typed values, dates ordered), ReturnModelInput
\* validation succeeds iff: parametric - the four return/deviation fields are
\* present and returns_source, start_date, end_date, block_size, circular are
\* absent; statistical - returns_source is present and the four fields,
\* block_size and circular are absent; bootstrap - returns_source is present
\* and the four fields are absent.
C2_FieldSetRule ==
    (Done("ReturnModelInput") /\ C2_WellTyped /\ C2_DatesOrdered) =>
        (Accepted <=> C2_FieldSetOk)

\* a statistical config with returns_source and a start date, accepted
C2_Witness ==
    /\ Done("ReturnModelInput") /\ C2_ModelType = STATISTICAL
    /\ Given("returns_source") /\ Given("start_date") /\ ~Given("end_date")
    /\ Accepted

\* ---------------------------------------------------------------- C3
\* C3: every accepted bootstrap config has block_size and circular non-null:
\* an absent one holds its default (1, true), a supplied one (circular = false
\* included) holds the supplied value; an accepted statistical or parametric
\* config has both null.
C3_BootstrapDefaults ==
    (Done("ReturnModelInput") /\ Accepted) =>
        IF C2_ModelType = BOOTSTRAP
        THEN /\ result.value.block_size =
                    (IF Given("block_size") THEN In("block_size") ELSE Some(1))
             /\ result.value.circular =
                    (IF Given("circular") THEN In("circular") ELSE Some(TRUE))
        ELSE IsNone(result.value.block_size) /\ IsNone(result.value.circular)

\* bootstrap without block_size and with circular = false: 1 and false
C3_Witness ==
    /\ Done("ReturnModelInput") /\ C2_ModelType = BOOTSTRAP /\ Accepted
    /\ ~Given("block_size") /\ In("circular") = Some(FALSE)
    /\ result.value.block_size = Some(1) /\ result.value.circular = Some(FALSE)

\* ---------------------------------------------------------------- C4
C4_Token == Val(In("returns_source"))

C4_Stored == Val(result.value.returns_source)

C4_OthersValid ==
    /\ C2_ModelType \in {STATISTICAL, BOOTSTRAP}
    /\ Given("returns_source")
    /\ C2_FieldSetOk /\ C2_WellTyped /\ C2_DatesOrdered

C4_Boundary(t, j) ==
    /\ j > 1
    /\ \/ IsLower(t[j - 1]) /\ IsUpper(t[j])
       \/ IsDigit(t[j - 1]) /\ IsUpper(t[j])
       \/ IsLower(t[j - 1]) /\ IsDigit(t[j])
       \/ IsUpper(t[j - 1]) /\ IsUpper(t[j]) /\ j < Len(t) /\ IsLower(t[j + 1])

RECURSIVE C4_SnakeFrom(_, _)
C4_SnakeFrom(t, j) ==
    IF j > Len(t) THEN <<>>
    ELSE (IF C4_Boundary(t, j) THEN <<"_">> ELSE <<>>)
         \o <<IF t[j] = "-" THEN "_" ELSE LowerChar(t[j])>>
         \o C4_SnakeFrom(t, j + 1)

\* no word boundary and no hyphen
C4_Plain(t) == \A j \in 1..Len(t) : ~C4_Boundary(t, j) /\ t[j] # "-"

C5_Inverted ==
    Given("start_date") /\ Given("end_date") /\ Val(In("start_date")) > Val(In("end_date"))

C5_DateError == Rejected /\ Reports(<<>>, "'startDate' cannot be after 'endDate'")

\* C5 as claimed: whenever both dates are present with start_date after
\* end_date, validation fails and reports the date-range error, whatever the
\* other fields are; otherwise that error is never reported.
C5_AlwaysDateError ==
    Done("ReturnModelInput") =>
        /\ C5_Inverted => C5_DateError
        /\ ~C5_Inverted => ~C5_DateError

\* C5 (amended): whenever both dates are present with start_date after
\* end_date, validation fails; the failure reported is the date-range error
\* exactly when, besides, every field value is valid and the field-set rule
\* of the model type is satisfied (never for parametric, which forbids both
\* dates): otherwise the field or field-set failure is reported in its place.
\* Equal dates and start_date before end_date never give that error.
C5_DateErrorAfterFieldSet ==
    Done("ReturnModelInput") =>
        /\ C5_Inverted => Rejected
        /\ C5_DateError <=> (C5_Inverted /\ C2_WellTyped /\ C2_FieldSetOk)

\* a bootstrap config, valid but for its inverted dates: the date-range error
C5_Witness ==
    /\ Done("ReturnModelInput") /\ C2_ModelType = BOOTSTRAP
    /\ C5_Inverted /\ C5_DateError

\* ---------------------------------------------------------------- C6..C10
Steps == Get(input, "num_steps")

Paths == Get(input, "num_paths")

Bal == Get(input, "initial_balances")

Pct == Get(input, "percentiles")

V_Steps == 12 <= Steps /\ Steps <= 1200

V_Paths == 100 <= Paths /\ Paths <= 1000000

V_Bal ==
    IF Bal.islist
    THEN Len(Bal.items) = Paths /\ \A i \in 1..Len(Bal.items) : FGe(Bal.items[i], F(0))
    ELSE FGe(Bal.items[1], F(0))

C6_OutOfRange == \E i \in 1..Len(Pct) : Pct[i] <= 0 \/ Pct[i] >= 100

C6_Duplicate == \E i, j \in 1..Len(Pct) : i < j /\ Pct[i] = Pct[j]

V_Pct == ~C6_OutOfRange /\ ~C6_Duplicate

V_Nested ==
    Get(input, "return_model") = RM_Valid /\ Get(input, "cash_flow_strategy") = CF_Valid

PercentileOutOfRange ==
    Reports(<<"percentiles">>, "each percentile must be greater than 0 and less than 100")

DuplicatePercentile == Reports(<<"percentiles">>, "percentiles must be unique")

\* C6: a percentile list with an element <= 0 or >= 100 is rejected
\* (PercentileOutOfRange), one with a repeated value is rejected
\* (DuplicatePercentile when every element is in range); any other list is
\* accepted (other fields valid) and stored as its strictly ascending
\* permutation, so the percentiles of every accepted config are strictly
\* increasing and lie in 1..99.
C6_Percentiles ==
    Done("SimulationConfig") =>
        /\ C6_OutOfRange => (Rejected /\ PercentileOutOfRange)
        /\ C6_Duplicate => Rejected
        /\ (C6_Duplicate /\ ~C6_OutOfRange) => DuplicatePercentile
        /\ (V_Pct /\ V_Steps /\ V_Paths /\ V_Bal /\ V_Nested) => Accepted
        /\ Accepted =>
             LET st == result.value.percentiles
             IN  /\ Len(st) = Len(Pct)
                 /\ {st[i] : i \in 1..Len(st)} = {Pct[i] : i \in 1..Len(Pct)}
                 /\ \A i \in 1..Len(st) : st[i] \in 1..99
                 /\ \A i \in 1..(Len(st) - 1) : st[i] < st[i + 1]

\* [99, 1, 50] is accepted and stored as [1, 50, 99]
C6_Witness ==
    /\ Done("SimulationConfig") /\ Accepted
    /\ Pct = <<99, 1, 50>> /\ result.value.percentiles = <<1, 50, 99>>

RangeViolation(f) ==
    ReportsType(<<f>>, "greater_than_equal") \/ ReportsType(<<f>>, "less_than_equal")

BalanceCountMismatch ==
    Reports(<<>>, "initialBalances must have the same length as numPaths")

\* C8: with initialBalances = [1.0, 2.0, 3.0] and all other fields valid,
\* numPaths = 5 fails with BalanceCountMismatch and numPaths = 3 succeeds.
C8_ThreeBalances ==
    (Done("SimulationConfig") /\ Bal = List(<<F(1), F(2), F(3)>>)
        /\ V_Steps /\ V_Pct /\ V_Nested) =>
        /\ Paths = 5 => (Rejected /\ BalanceCountMismatch)
        /\ Paths = 3 => Accepted

\* C9: in every accepted config whose initial_balances is a list the length
\* of the list equals num_paths; an input whose list length differs from
\* num_paths is never accepted; a (non-negative) scalar is accepted with any
\* valid num_paths.
C9_BalanceCount ==
    Done("SimulationConfig") =>
        /\ (Accepted /\ result.value.initial_balances.islist) =>
              Len(result.value.initial_balances.items) = result.value.num_paths
        /\ (Bal.islist /\ Len(Bal.items) # Paths) => Rejected
        /\ (~Bal.islist /\ V_Bal /\ V_Steps /\ V_Paths /\ V_Pct /\ V_Nested) => Accepted

\* a list of 100 balances with num_paths = 100, accepted
C9_Witness ==
    /\ Done("SimulationConfig") /\ Accepted
    /\ result.value.initial_balances.islist
    /\ Len(result.value.initial_balances.items) = 100 /\ result.value.num_paths = 100

NegativeBalance ==
    \/ Reports(<<"initial_balances">>, "initialBalances must be greater than or equal to 0")
    \/ Reports(<<"initial_balances">>,
               "all values in initialBalances must be greater than or equal to 0")

\* C10: a scalar initial_balances is accepted iff it is >= 0 (other fields
\* valid), a list only if every element is >= 0; a negative scalar and a list
\* with a negative element are rejected with NegativeBalance; no accepted
\* config holds a negative balance.
C10_NonNegativeBalances ==
    Done("SimulationConfig") =>
        /\ (~Bal.islist /\ V_Steps /\ V_Paths /\ V_Pct /\ V_Nested) =>
              (Accepted <=> FGe(Bal.items[1], F(0)))
        /\ (Bal.islist /\ Accepted) => \A i \in 1..Len(Bal.items) : FGe(Bal.items[i], F(0))
        /\ (\E i \in 1..Len(Bal.items) : FLt(Bal.items[i], F(0))) =>
              (Rejected /\ NegativeBalance)
        /\ Accepted =>
              \A i \in 1..Len(result.value.initial_balances.items) :
                  ~FLt(result.value.initial_balances.items[i], F(0))

(***************************************************************************)
(* Key spelling.                                                           *)
(***************************************************************************)
\* the constructor of class c
Validate(c, raw) ==
    CASE c = "CashFlowInput" -> CashFlowInput(raw)
      [] c = "ReturnModelInput" -> ReturnModelInput(raw)
      [] c = "SimulationConfig" -> SimulationConfig(raw)

\* the documented camelCase key of every field
C11_CamelKey ==
    [ strategy |-> <<"s","t","r","a","t","e","g","y">>,
      contribution |-> <<"c","o","n","t","r","i","b","u","t","i","o","n">>,
      withdrawal |-> <<"w","i","t","h","d","r","a","w","a","l">>,
      months_to_retirement |-> <<"m","o","n","t","h","s","T","o","R","e","t","i","r","e","m","e","n","t">>,
      model_type |-> <<"m","o","d","e","l","T","y","p","e">>,
      nominal_expected_return |-> <<"n","o","m","i","n","a","l","E","x","p","e","c","t","e","d","R","e","t","u","r","n">>,
      nominal_standard_deviation |-> <<"n","o","m","i","n","a","l","S","t","a","n","d","a","r","d","D","e","v","i","a","t","i","o","n">>,
      real_expected_return |-> <<"r","e","a","l","E","x","p","e","c","t","e","d","R","e","t","u","r","n">>,
      real_standard_deviation |-> <<"r","e","a","l","S","t","a","n","d","a","r","d","D","e","v","i","a","t","i","o","n">>,
      returns_source |-> <<"r","e","t","u","r","n","s","S","o","u","r","c","e">>,
      start_date |-> <<"s","t","a","r","t","D","a","t","e">>,
      end_date |-> <<"e","n","d","D","a","t","e">>,
      block_size |-> <<"b","l","o","c","k","S","i","z","e">>,
      circular |-> <<"c","i","r","c","u","l","a","r">>,
      num_steps |-> <<"n","u","m","S","t","e","p","s">>,
      num_paths |-> <<"n","u","m","P","a","t","h","s">>,
      initial_balances |-> <<"i","n","i","t","i","a","l","B","a","l","a","n","c","e","s">>,
      percentiles |-> <<"p","e","r","c","e","n","t","i","l","e","s">>,
      return_model |-> <<"r","e","t","u","r","n","M","o","d","e","l">>,
      cash_flow_strategy |-> <<"c","a","s","h","F","l","o","w","S","t","r","a","t","e","g","y">> ]

C11_OtherSpelling(k) ==
    IF \E f \in DOMAIN FieldName : FieldName[f] = k
    THEN C11_CamelKey[CHOOSE f \in DOMAIN FieldName : FieldName[f] = k]
    ELSE FieldName[CHOOSE f \in DOMAIN FieldName : C11_CamelKey[f] = k]

\* the same data with every key in its other spelling
C11_RespellFlat(raw) ==
    [k2 \in {C11_OtherSpelling(k) : k \in DOMAIN raw} |->
        raw[CHOOSE k \in DOMAIN raw : C11_OtherSpelling(k) = k2]]

C11_Respell(raw) ==
    [k2 \in {C11_OtherSpelling(k) : k \in DOMAIN raw} |->
        LET k == CHOOSE k1 \in DOMAIN raw : C11_OtherSpelling(k1) = k2
        IN  IF k \in {C11_CamelKey.return_model, FieldName.return_model,
                      C11_CamelKey.cash_flow_strategy, FieldName.cash_flow_strategy}
            THEN C11_RespellFlat(raw[k])
            ELSE raw[k]]

\* C11: an input and the same input with every key in its other spelling
\* (camelCase alias for snake_case name and back, in the nested records
\* too) have the same outcome, and when accepted, equal validated configs.
C11_KeyCasing ==
    pc = "done" =>
        LET other == Validate(cls, C11_Respell(input))
        IN  /\ other.status = result.status
            /\ Accepted => other.value = result.value

\* a fixed_lifecycle strategy given months_to_retirement under its
\* snake_case key is accepted
C11_Witness ==
    /\ Done("CashFlowInput") /\ Accepted
    /\ FieldName.months_to_retirement \in DOMAIN input
    /\ C11_CamelKey.months_to_retirement \notin DOMAIN input
    /\ result.value.months_to_retirement = Some(32)

\* ---------------------------------------------------------------- C12
C12_Class == cls \in {"CashFlowInput", "ReturnModelInput"}

C12_Variant == IF cls = "CashFlowInput" THEN C1_Strategy ELSE C2_ModelType

C12_Optional == IF cls = "CashFlowInput" THEN CF_Optional ELSE RM_Optional

C12_Required ==
    IF cls = "CashFlowInput" THEN C1_Required
    ELSE IF C2_ModelType = PARAMETRIC THEN C2_ReturnFields
    ELSE {"returns_source"}

C12_Forbidden ==
    IF cls = "CashFlowInput" THEN CF_Optional \ C1_Required
    ELSE IF C2_ModelType = PARAMETRIC
    THEN {"returns_source", "start_date", "end_date", "block_size", "circular"}
    ELSE IF C2_ModelType = STATISTICAL
    THEN C2_ReturnFields \cup {"block_size", "circular"}
    ELSE C2_ReturnFields

\* the discriminator is a member and every number is within its bound
C12_WellTyped ==
    /\ C12_Variant \in Strategy \cup ModelType
    /\ \A f \in {"months_to_retirement"} \cap C12_Optional :
            Given(f) => Val(In(f)) >= 0
    /\ \A f \in {"block_size"} \cap C12_Optional :
            Given(f) => Val(In(f)) >= 1
    /\ \A f \in {"nominal_standard_deviation", "real_standard_deviation"} \cap C12_Optional :
            Given(f) => FGe(Val(In(f)), F(0))

C12_Missing == {f \in C12_Required : ~Given(f)}

C12_Extra == {f \in C12_Forbidden : Given(f)}

\* a required field is absent and a forbidden field is present
C12_BothViolated ==
    /\ pc = "done" /\ C12_Class /\ C12_WellTyped
    /\ C12_Missing # {} /\ C12_Extra # {}

\* the message names the variant: CashFlowInput by its camelCase value,
\* ReturnModelInput by its ModelType member
C12_NamesVariant ==
    result.errors[1].msg.model =
        (IF C12_Variant = FIXED_LIFECYCLE THEN Tok_fixedLifecycle ELSE C12_Variant)

C13_ReportsUnder(f) ==
    \E i \in 1..Len(result.errors) :
        Len(result.errors[i].loc) >= 1 /\ result.errors[i].loc[1] = f

C13_Negative == \E i \in 1..Len(Bal.items) : FLt(Bal.items[i], F(0))

C13_NonNegative == \A i \in 1..Len(Bal.items) : FGe(Bal.items[i], F(0))

C13_LengthDiffers == Bal.islist /\ Len(Bal.items) # Paths

C13_NestedInvalid(f) ==
    Get(input, f) \in {RM_Invalid, CF_Invalid}

\* the checks made on one field each
C13_FieldChecks ==
    /\ ~V_Steps => RangeViolation("num_steps")
    /\ ~V_Paths => RangeViolation("num_paths")
    /\ C13_Negative => NegativeBalance
    /\ ~V_Pct => (PercentileOutOfRange \/ DuplicatePercentile)
    /\ C13_NestedInvalid("return_model") => C13_ReportsUnder("return_model")
    /\ C13_NestedInvalid("cash_flow_strategy") => C13_ReportsUnder("cash_flow_strategy")

C13_FieldsValid ==
    /\ V_Steps /\ V_Paths /\ C13_NonNegative /\ V_Pct
    /\ ~C13_NestedInvalid("return_model") /\ ~C13_NestedInvalid("cash_flow_strategy")

\* C13 (as claimed): the range checks, the balances checks (negativity and
\* length against num_paths), the percentiles check and the nested
\* validators are evaluated independently: the failure list holds a failure
\* for every violated check; an out-of-range num_steps together with a
\* balance list whose length differs from num_paths reports both a range
\* failure and the balance count mismatch.
C13_AllChecksReported ==
    Done("SimulationConfig") =>
        /\ C13_FieldChecks
        /\ C13_LengthDiffers => BalanceCountMismatch

\* C13 (amended): the checks made on one field each (the two ranges, balance
\* negativity, percentiles, the two nested models) are evaluated
\* independently and every violated one is in the failure list; the balance
\* count is compared with num_paths only when all of them pass, so a count
\* mismatch is reported exactly when every field is valid on its own and the
\* list length differs, and is then the only failure.
C13_FieldChecksReported ==
    Done("SimulationConfig") =>
        /\ C13_FieldChecks
        /\ (C13_FieldsValid /\ C13_LengthDiffers) => BalanceCountMismatch
        /\ BalanceCountMismatch =>
              /\ Len(result.errors) = 1
              /\ V_Steps /\ V_Paths /\ V_Pct /\ ~C13_Negative /\ C13_LengthDiffers

\* num_steps and num_paths out of range, a duplicated percentile and two
\* invalid nested models: five failures, reported together
C13_Witness ==
    /\ Done("SimulationConfig") /\ Rejected
    /\ ~V_Steps /\ ~V_Paths /\ ~V_Pct
    /\ C13_NestedInvalid("return_model") /\ C13_NestedInvalid("cash_flow_strategy")
    /\ Len(result.errors) = 5
    /\ C13_FieldChecks

\* ---------------------------------------------------------------- C14
C14_NonNull(v, fs) == \A f \in fs : ~IsNone(v[f])

C14_Null(v, fs) == \A f \in fs : IsNone(v[f])

C14_CashFlowInvariant(v) ==
    /\ v.strategy \in {ZERO, FIXED, FIXED_LIFECYCLE}
    /\ LET required == IF v.strategy = ZERO THEN {}
                       ELSE IF v.strategy = FIXED THEN {"contribution"}
                       ELSE CF_Optional
       IN  C14_NonNull(v, required) /\ C14_Null(v, CF_Optional \ required)
    /\ ~IsNone(v.months_to_retirement) => Val(v.months_to_retirement) >= 0

C14_ReturnModelInvariant(v) ==
    /\ v.model_type \in {STATISTICAL, PARAMETRIC, BOOTSTRAP}
    /\ v.model_type = PARAMETRIC =>
          /\ C14_NonNull(v, C2_ReturnFields)
          /\ C14_Null(v, {"returns_source", "start_date", "end_date", "block_size", "circular"})
    /\ v.model_type = STATISTICAL =>
          /\ C14_NonNull(v, {"returns_source"})
          /\ C14_Null(v, C2_ReturnFields \cup {"block_size", "circular"})
    /\ v.model_type = BOOTSTRAP =>
          /\ C14_NonNull(v, {"returns_source", "block_size", "circular"})
          /\ C14_Null(v, C2_ReturnFields)
          /\ Val(v.block_size) >= 1
    /\ C14_NonNull(v, {"start_date", "end_date"}) => Val(v.start_date) <= Val(v.end_date)

C14_ConfigInvariant(v) ==
    /\ 12 <= v.num_steps /\ v.num_steps <= 1200
    /\ 100 <= v.num_paths /\ v.num_paths <= 1000000
    /\ \A i \in 1..Len(v.percentiles) : v.percentiles[i] \in 1..99
    /\ \A i \in 1..(Len(v.percentiles) - 1) : v.percentiles[i] < v.percentiles[i + 1]
    /\ v.initial_balances.islist => Len(v.initial_balances.items) = v.num_paths
    /\ \A i \in 1..Len(v.initial_balances.items) : ~FLt(v.initial_balances.items[i], F(0))
    /\ v.return_model # <<>> /\ v.cash_flow_strategy # <<>>

\* the invariants of the config held by the state
C14_Invariants ==
    CASE cls = "CashFlowInput" -> C14_CashFlowInvariant(result.value)
      [] cls = "ReturnModelInput" -> C14_ReturnModelInvariant(result.value)
      [] cls = "SimulationConfig" -> C14_ConfigInvariant(result.value)

C15_Class == cls \in {"CashFlowInput", "ReturnModelInput"}

C15_Field == IF cls = "CashFlowInput" THEN "strategy" ELSE "model_type"

C15_Token == Get(input, C15_Field)

C15_Members ==
    IF cls = "CashFlowInput" THEN {ZERO, FIXED, FIXED_LIFECYCLE}
    ELSE {STATISTICAL, PARAMETRIC, BOOTSTRAP}

\* the accepted spellings of member m
C15_Spellings(m) == IF m = FIXED_LIFECYCLE THEN {Tok_fixedLifecycle, FIXED_LIFECYCLE} ELSE {m}

\* token t equals a spelling of member m up to letter case
C15_MatchesUpToCase(t, m) == \E s \in C15_Spellings(m) : Lower(t) = Lower(s)

C15_RequiredOf(m) ==
    CASE m = ZERO -> {}
      [] m = FIXED -> {"contribution"}
      [] m = FIXED_LIFECYCLE -> CF_Optional
      [] m = PARAMETRIC -> C2_ReturnFields
      [] m \in {STATISTICAL, BOOTSTRAP} -> {"returns_source"}

C15_AllowedOf(m) ==
    CASE m \in {ZERO, FIXED, FIXED_LIFECYCLE, PARAMETRIC} -> C15_RequiredOf(m)
      [] m = STATISTICAL -> {"returns_source", "start_date", "end_date"}
      [] m = BOOTSTRAP -> {"returns_source", "start_date", "end_date", "block_size", "circular"}

\* the other fields make a valid config of variant m
C15_FieldsFit(m) ==
    /\ \A f \in C15_RequiredOf(m) : Given(f)
    /\ \A f \in C12_Optional \ C15_AllowedOf(m) : ~Given(f)
    /\ \A f \in {"months_to_retirement"} \cap C12_Optional : Given(f) => Val(In(f)) >= 0
    /\ \A f \in {"block_size"} \cap C12_Optional : Given(f) => Val(In(f)) >= 1
    /\ \A f \in {"nominal_standard_deviation", "real_standard_deviation"} \cap C12_Optional :
            Given(f) => FGe(Val(In(f)), F(0))
    /\ \A f \in {"start_date"} \cap C12_Optional :
            (Given(f) /\ Given("end_date")) => Val(In(f)) <= Val(In("end_date"))

\* rejected as an unknown variant, the field-set check not run
C15_UnknownVariant ==
    /\ Rejected /\ ReportsType(<<C15_Field>>, "enum")
    /\ \A i \in 1..Len(result.errors) : result.errors[i].type # "value_error"

C15_SingleCase(t) ==
    \/ \A j \in 1..Len(t) : ~IsUpper(t[j])
    \/ \A j \in 1..Len(t) : ~IsLower(t[j])
    \/ IsUpper(t[1]) /\ \A j \in 2..Len(t) : ~IsUpper(t[j])

C16_Deviations == {"nominal_standard_deviation", "real_standard_deviation"}

\* the optional numeric fields of the class that are given below their bound
C16_BelowBound ==
    {f \in {"months_to_retirement"} \cap C12_Optional : Given(f) /\ Val(In(f)) < 0}
    \cup {f \in {"block_size"} \cap C12_Optional : Given(f) /\ Val(In(f)) < 1}
    \cup {f \in C16_Deviations \cap C12_Optional : Given(f) /\ FLt(Val(In(f)), F(0))}

\* a member as discriminator, the field-set rule satisfied, the dates ordered
C16_FieldSetOk ==
    /\ C12_Variant \in Strategy \cup ModelType
    /\ C12_Missing = {} /\ C12_Extra = {}
    /\ \A f \in {"start_date"} \cap C12_Optional :
            (Given(f) /\ Given("end_date")) => Val(In(f)) <= Val(In("end_date"))

\* C16: months_to_retirement is accepted iff it is >= 0, block_size iff it
\* is >= 1, each standard deviation iff it is >= 0; contribution, withdrawal
\* and the expected returns are accepted with any sign.  With the field-set
\* rule satisfied a config is accepted iff no field is below its bound, and a
\* field below its bound is always rejected with a failure on that field.
C16_NumericBounds ==
    (pc = "done" /\ C12_Class) =>
        /\ C16_FieldSetOk => (Accepted <=> C16_BelowBound = {})
        /\ \A f \in C16_BelowBound :
              Rejected /\ ReportsType(<<f>>, "greater_than_equal")

\* a fixed_lifecycle strategy with withdrawal = -400 and
\* months_to_retirement = 0 is accepted
C16_Witness ==
    /\ Done("CashFlowInput") /\ Accepted
    /\ In("withdrawal") = Some(F(-400)) /\ In("months_to_retirement") = Some(0)

\* ---------------------------------------------------------------- C17
\* field f is given a value that is not null but counts as false
C17_Falsy(f) ==
    /\ Given(f)
    /\ CASE f \in {"months_to_retirement", "block_size"} -> Val(In(f)) = 0
         [] f = "circular" -> Val(In(f)) = FALSE
         [] f \in {"returns_source", "start_date", "end_date"} -> FALSE
         [] OTHER -> Val(In(f)) = F(0)

\* the input without the keys that hold an explicit null
C17_WithoutNulls(raw) ==
    [k \in {k1 \in DOMAIN raw : raw[k1] # None} |-> raw[k]]

C17_Nulls == {k \in DOMAIN input : input[k] = None}

\* C17: a field counts as present when it is not null, whatever its value: a
\* forbidden field given 0, 0.0 or false is rejected as a forbidden field, a
\* required field given 0 satisfies the requirement, and a field given an
\* explicit null is treated exactly as if it were left out.
C17_PresenceIsNonNull ==
    (pc = "done" /\ C12_Class) =>
        /\ \A f \in C12_Forbidden :
              (C17_Falsy(f) /\ C12_WellTyped /\ C12_Missing = {}) =>
                  /\ Rejected /\ Len(result.errors) = 1
                  /\ result.errors[1].msg.text = "must be None for"
                  /\ C11_CamelKey[f] \in NamedFields
        /\ \A f \in C12_Required :
              (C17_Falsy(f) /\ C16_FieldSetOk /\ C16_BelowBound = {}) =>
                  (Accepted /\ result.value[f] = In(f))
        /\ result = Validate(cls, C17_WithoutNulls(input))

\* a statistical config with circular = false is rejected, naming circular
C17_Witness ==
    /\ Done("ReturnModelInput") /\ C2_ModelType = STATISTICAL
    /\ Given("returns_source") /\ In("circular") = Some(FALSE)
    /\ C12_Extra = {"circular"}
    /\ Rejected /\ NamedFields = {C11_CamelKey.circular}

\* ---------------------------------------------------------------- C18
\* the discriminator of the instance has no rule set
C18_NoRuleSet ==
    IF cls = "CashFlowInput"
    THEN input.strategy \notin {ZERO, FIXED, FIXED_LIFECYCLE}
    ELSE input.model_type \notin {STATISTICAL, PARAMETRIC, BOOTSTRAP}

\* C18: in the cash-flow and in the return-model field-set check, a
\* discriminator without a rule set gets the empty rule set: the check
\* returns the instance, for every combination of fields, and never fails or
\* aborts for want of a rule set.
C18_PermissiveFallback ==
    (pc = "done" /\ C18_NoRuleSet) => (Accepted /\ result.value = input)

\* the cash-flow half: an unknown strategy with all three fields set passes
C18_CashFlowFallback ==
    (pc = "done" /\ cls = "CashFlowInput" /\ C18_NoRuleSet) =>
        (Accepted /\ result.value = input)

\* ---------------------------------------------------------------- C19
\* the validated model as keyword data again: every field under its name,
\* null fields as explicit nulls
C19_DumpFlat(v) ==
    [k \in {FieldName[f] : f \in DOMAIN v} |->
        v[CHOOSE f \in DOMAIN v : FieldName[f] = k]]

C19_Dump(v) ==
    [k \in {FieldName[f] : f \in DOMAIN v} |->
        LET f == CHOOSE g \in DOMAIN v : FieldName[g] = k
        IN  IF f \in {"return_model", "cash_flow_strategy"} THEN C19_DumpFlat(v[f]) ELSE v[f]]

\* C19: validation is idempotent: the normalized config of every accepted
\* input, given back to the validator, is accepted and yields an equal
\* config.
C19_Idempotent ==
    (pc = "done" /\ Accepted) =>
        Validate(cls, C19_Dump(result.value)) = Success(result.value)

====
